---- MODULE Spec2Model ----
(***************************************************************************)
(* A model of dc-fetch: the DcFetch request dispatcher (src/src/dc-fetch.js)*)
(* and the createDcFetchHoc lifecycle wrapper (src/src/react-hoc.jsx).      *)
(*                                                                         *)
(* The HTTP client (axios) is the environment.  What the model takes from  *)
(* it is its documented contract:                                          *)
(*   - instance(config) returns a promise that is fulfilled with a         *)
(*     response, or rejected with an error;                                *)
(*   - cancel(message) on the cancel token that the config carries, while  *)
(*     that promise is pending, rejects it with a Cancel whose .message is *)
(*     the message given; on any other token, or later, it has no effect   *)
(*     on the request;                                                     *)
(*   - the reactions registered with .then/.catch run in a later job,      *)
(*     after the promise has settled.                                      *)
(* JS strings that are not ASCII are written as ASCII stand-ins.           *)
(***************************************************************************)
EXTENDS Naturals, Sequences, FiniteSets

VARIABLES
    onShowSuccessTip,   \* constructor argument: how the success hook behaves
    onShowErrorTip,     \* constructor argument: how the error hook behaves
    isMock,             \* constructor argument: the isMock function (a policy name)
    defaults,           \* instance.defaults and mockInstance.defaults
    handles,            \* every promise fetch has returned, in order of creation
    singleGets,         \* this.singleGets: url -> handle (0: no entry)
    dcFetchTokens,      \* per wrapped component: this._$dcFetchTokens
    mounted,            \* per wrapped component: not yet torn down
    threw               \* the last method call threw a TypeError, returning nothing

vars == <<onShowSuccessTip, onShowErrorTip, isMock, defaults, handles,
          singleGets, dcFetchTokens, mounted, threw>>

\* The number of requests issued in one behaviour.
MaxReq == 2

\* The number of wrapped component instances.
MaxComp == 1

----------------------------------------------------------------------------
(* JS values *)

Undefined == [t |-> "undefined", id |-> 0]
Null == [t |-> "null", id |-> 0]
\* {} is Obj(0); Obj(1) is {a: 1}, Obj(2) is {a: '1'}, Obj(3) is {b: 2}
Obj(i) == [t |-> "obj", id |-> i]
\* '' is Str(0); Str(1) is 'a=1', Str(2) is 'b=2'
Str(i) == [t |-> "str", id |-> i]
EmptyObject == Obj(0)

\* what `v || {}` and `if (v)` take for false
FalsyMutUndefined(v) == v.t = "undefined"
Falsy(v) == v.t \in {"undefined", "null"} \/ v = Str(0)

\* qs.stringify: an object becomes its query string, anything else ''
stringify(v) ==
    IF v.t # "obj" THEN Str(0)
    ELSE IF v.id = 0 THEN Str(0)
    ELSE IF v.id \in {1, 2} THEN Str(1)
    ELSE Str(2)

Methods == {"get", "post", "put", "patch", "delete"}
Instances == {"instance", "mockInstance"}
Urls == {"/users", "/mock/users"}

JsonType == "application/json"
FormType == "application/x-www-form-urlencoded"
FormTypeCharset == "application/x-www-form-urlencoded;charset=UTF-8"
NoType == "undefined"

\* s.indexOf('application/x-www-form-urlencoded') > -1
IsFormEncodedMutExact(s) == s = FormType
IsFormEncoded(s) == s \in {FormType, FormTypeCharset}

\* the default error tips of fetch and the default successTip (false)
GetErrorTip == "get-data-failed!"
OpErrorTip == "operation-failed!"
FalseTip == "false"
NoTip == "undefined"

----------------------------------------------------------------------------
(* options: the fourth argument of fetch, an axios config plus the tips *)

NoOptions ==
    [t |-> "obj", successTip |-> NoTip, errorTip |-> NoTip, contentType |-> NoType,
     cancelToken |-> FALSE, method |-> "undefined", url |-> "undefined",
     data |-> Undefined, params |-> Undefined]
NullOptions == [NoOptions EXCEPT !.t = "null"]
UndefinedOptions == [NoOptions EXCEPT !.t = "undefined"]
\* the caller brings a cancel token of their own
OwnTokenOptions == [NoOptions EXCEPT !.cancelToken = TRUE]

----------------------------------------------------------------------------
(* what a request ends with *)

NoResult == [kind |-> "none", data |-> 0, canceled |-> FALSE]
\* a response whose .data is d
Response(d) == [kind |-> "response", data |-> d, canceled |-> FALSE]
\* response.data
DataOf(r) == [kind |-> "data", data |-> r.data, canceled |-> FALSE]
\* an error of the client (network, status, timeout): .message is a string
NetworkError == [kind |-> "error", data |-> 0, canceled |-> FALSE]
\* what cancel({canceled: true}) rejects the request with
Cancel == [kind |-> "cancel", data |-> 0, canceled |-> TRUE]
\* what a throwing hook throws
HookError == [kind |-> "thrown", data |-> 0, canceled |-> FALSE]

ResponseData == {1, 2}

----------------------------------------------------------------------------
(* constructor *)

\* the client library the DcFetch is built on.  contentType is its own
\* Content-Type for post, put and patch (form encoding in axios 0.x, none
\* later).  sharedHeaders: axios.create() copies the top-level fields of the
\* library's defaults, and up to axios 0.18 the nested headers objects are
\* not copied: every instance has the same ones.
Libraries ==
    {[contentType |-> FormType, sharedHeaders |-> TRUE],
     [contentType |-> FormType, sharedHeaders |-> FALSE],
     [contentType |-> NoType, sharedHeaders |-> FALSE]}
FormLibraries == {lib \in Libraries : lib.contentType = FormType}

\* axios.create().defaults: no timeout, no baseURL, the library's headers
AxiosDefaults(lib) ==
    [timeout |-> 0, baseURL |-> "undefined", withCredentials |-> FALSE,
     sharedHeaders |-> lib.sharedHeaders,
     headers |-> [m \in Methods |->
                    IF m \in {"post", "put", "patch"} THEN lib.contentType
                    ELSE NoType]]

setDefaultOptionMutNoPut(d) ==
    [d EXCEPT !.timeout = 10000,
              !.headers = [@ EXCEPT !["post"] = JsonType],
              !.baseURL = "/",
              !.withCredentials = TRUE]
setDefaultOption(d) ==
    [d EXCEPT !.timeout = 10000,
              !.headers = [@ EXCEPT !["post"] = JsonType, !["put"] = JsonType],
              !.baseURL = "/",
              !.withCredentials = TRUE]

\* this.defaults = this.instance.defaults;
\* this.mockDefaults = this.mockInstance.defaults: which instance's defaults
\* object each of the two properties of dcFetch is
exposed == [defaults |-> "instance", mockDefaults |-> "mockInstance"]
Exposed == {"defaults", "mockDefaults"}

\* the isMock functions the model constructs a DcFetch with; "default" is the
\* constructor's own default
MockPolicies == {"default", "mockPrefix", "postOnly", "one", "zero"}

\* isMock(url, data, method, options): the value the function returns
isMockResult(url, data, method, options) ==
    CASE isMock = "default" -> "false"
      [] isMock = "mockPrefix" -> IF url = "/mock/users" THEN "true" ELSE "false"
      [] isMock = "postOnly" -> IF method = "post" THEN "true" ELSE "undefined"
      [] isMock = "one" -> "1"
      [] OTHER -> "0"

\* if (isMock)
Truthy(s) == s \in {"true", "1"}

Comps == 1..MaxComp

\* new DcFetch({onShowSuccessTip, onShowErrorTip, isMock}), on the client
\* library lib, and MaxComp wrapped components constructed
Constructed(succ, err, mock, lib) ==
    /\ onShowSuccessTip = succ
    /\ onShowErrorTip = err
    /\ isMock = mock
    /\ defaults = [i \in Instances |-> setDefaultOption(AxiosDefaults(lib))]
    /\ handles = <<>>
    /\ singleGets = [u \in Urls |-> 0]
    /\ dcFetchTokens = [c \in Comps |-> <<>>]
    /\ mounted = [c \in Comps |-> TRUE]
    /\ threw = FALSE

----------------------------------------------------------------------------
(* fetch *)

\* the config handed to the instance: {method, url, data, params, cancelToken,
\* ...options}; own is TRUE when options.cancelToken replaced fetch's token
RequestConfigMutNoOverride(method, url, data, params, options) ==
    [method |-> method, url |-> url, data |-> data, params |-> params,
     own |-> FALSE]
RequestConfig(method, url, data, params, options) ==
    [method |-> IF options.method # "undefined" THEN options.method ELSE method,
     url |-> IF options.url # "undefined" THEN options.url ELSE url,
     data |-> IF options.data # Undefined THEN options.data ELSE data,
     params |-> IF options.params # Undefined THEN options.params ELSE params,
     own |-> options.cancelToken]

instanceOfMutSwap(mock) == IF mock THEN "instance" ELSE "mockInstance"
instanceOf(mock) == IF mock THEN "mockInstance" ELSE "instance"

placeMutBody(isGet, data) == [params |-> EmptyObject, data |-> data]
place(isGet, data) ==
    IF isGet THEN [params |-> data, data |-> EmptyObject]
    ELSE [params |-> EmptyObject, data |-> data]

\* errorTip = method === 'get' ? <get tip> : <operation tip>
defaultErrorTipMutSame(method) == OpErrorTip
defaultErrorTip(method) == IF method = "get" THEN GetErrorTip ELSE OpErrorTip

\* the promise fetch(url, data, method, options) returns, with the request it
\* has handed to the instance
fetch(url, data0, method, options0) ==
    LET data1 == IF Falsy(data0) THEN EmptyObject ELSE data0
        options == IF options0.t # "obj" THEN NoOptions ELSE options0
        successTip == IF options.successTip = NoTip THEN FalseTip
                      ELSE options.successTip
        errorTip == IF options.errorTip = NoTip THEN defaultErrorTip(method)
                    ELSE options.errorTip
        isGet == method = "get"
        mock == Truthy(isMockResult(url, data1, method, options))
        inst == instanceOf(mock)
        defaultsContentType == defaults[inst].headers[method]
        contentType == options.contentType
        data2 == IF IsFormEncoded(defaultsContentType) \/ IsFormEncoded(contentType)
                 THEN stringify(data1) ELSE data1
        placed == place(isGet, data2)
    IN  [call |-> [op |-> "fetch", via |-> 0, url |-> url, data |-> data0,
                   method |-> method, options |-> options0],
         inst |-> inst,
         config |-> RequestConfig(method, url, placed.data, placed.params, options),
         defaultsUsed |-> defaults[inst], \* what the instance merges under it
         successTip |-> successTip,
         errorTip |-> errorTip,
         reason |-> FALSE,       \* the token fetch created has been cancelled
         cancelledAt |-> "never", \* where the request was at the first cancel()
         atUnmount |-> "never",  \* where it was when its component unmounted
         ax |-> "pending",       \* the promise instance(config) returned
         res |-> NoResult,       \* what that promise settled with
         cb |-> "waiting",       \* the reactions fetch registered on it
         thrown |-> NoResult,    \* what the then-reaction threw
         state |-> "pending",    \* fetchPromise
         value |-> NoResult,     \* what fetchPromise settled with
         trace |-> <<>>]         \* hook calls and resolve/reject, in order

\* fetchPromise.cancel(): cancel({canceled: true}) on the token fetch created.
\* A token takes its first reason only.  The request is aborted when it
\* carries that token and is still pending.  cancelledAt records, for the
\* properties, whether the request was still in flight at the first cancel().
Marked(h) ==
    IF h.reason THEN h
    ELSE [h EXCEPT !.reason = TRUE,
                   !.cancelledAt = IF h.ax = "pending" THEN "inflight" ELSE "completed"]

cancelMutNoAbort(h) == Marked(h)
cancel(h) ==
    IF ~h.config.own /\ h.ax = "pending"
    THEN [Marked(h) EXCEPT !.ax = "rejected", !.res = Cancel]
    ELSE Marked(h)

\* handle i's cancel() called, among the handles hs: each call of fetch has a
\* `cancel` variable and a CancelToken of its own
cancelInMutShared(hs, i) == [k \in DOMAIN hs |-> cancel(hs[k])]
cancelIn(hs, i) == [hs EXCEPT ![i] = cancel(@)]

\* the methods of DcFetch, as (new handles, new singleGets).  `via` names the
\* caller, for the properties: 0 is a direct call, c > 0 the wrapped component c
Named(h, op, via) == [h EXCEPT !.call.op = op, !.call.via = via]

MethodOf(op) == IF op = "del" THEN "delete"
                ELSE IF op = "singleGet" THEN "get" ELSE op

\* get, post, put, patch, del
plain(op, via, url, data, options) ==
    [handles |-> Append(handles,
                        Named(fetch(url, data, MethodOf(op), options), op, via)),
     singleGets |-> singleGets,
     threw |-> FALSE]

\* singleGets is a plain object: under a name that Object.prototype defines,
\* this.singleGets[url] is the inherited member, not undefined
InheritedKeys == {"constructor"}
Inherited == MaxReq + 1
\* this.singleGets[url]
oldFetchOfMutAnyUrl(map, url) ==
    IF url \in InheritedKeys THEN Inherited
    ELSE CHOOSE i \in {map[u] : u \in Urls} : \A u \in Urls : map[u] <= i
oldFetchOf(map, url) == IF url \in InheritedKeys THEN Inherited ELSE map[url]

\* with an inherited member for oldFetch, `if (oldFetch)` passes and
\* oldFetch.cancel() throws "oldFetch.cancel is not a function": no request
\* is made and nothing is stored
singleMutNoCancel(via, url, params, options) ==
    IF oldFetchOf(singleGets, url) = Inherited
    THEN [handles |-> handles, singleGets |-> singleGets, threw |-> TRUE]
    ELSE [handles |-> Append(handles,
                        Named(fetch(url, params, "get", options), "singleGet", via)),
          singleGets |-> [singleGets EXCEPT ![url] = Len(handles) + 1],
          threw |-> FALSE]
single(via, url, params, options) ==
    IF oldFetchOf(singleGets, url) = Inherited
    THEN [handles |-> handles, singleGets |-> singleGets, threw |-> TRUE]
    ELSE LET oldFetch == oldFetchOf(singleGets, url)
             hs == IF oldFetch # 0 THEN cancelIn(handles, oldFetch) ELSE handles
         IN  [handles |-> Append(hs,
                        Named(fetch(url, params, "get", options), "singleGet", via)),
              singleGets |-> [singleGets EXCEPT ![url] = Len(handles) + 1],
              threw |-> FALSE]

Ops == {"get", "post", "put", "patch", "del", "singleGet"}

dcFetchMethodMutPlain(op, via, url, data, options) ==
    plain(op, via, url, data, options)
dcFetchMethod(op, via, url, data, options) ==
    IF op = "singleGet" THEN single(via, url, data, options)
    ELSE plain(op, via, url, data, options)

Apply(r) ==
    /\ handles' = r.handles
    /\ singleGets' = r.singleGets
    /\ threw' = r.threw

Frame == UNCHANGED <<onShowSuccessTip, onShowErrorTip, isMock, defaults>>
NoHoc == UNCHANGED <<dcFetchTokens, mounted>>
NoCall == UNCHANGED threw

----------------------------------------------------------------------------
(* the caller's operations on the dispatcher *)

get(url, params, options) ==
    /\ Len(handles) < MaxReq
    /\ Apply(dcFetchMethod("get", 0, url, params, options))
    /\ Frame /\ NoHoc

post(url, data, options) ==
    /\ Len(handles) < MaxReq
    /\ Apply(dcFetchMethod("post", 0, url, data, options))
    /\ Frame /\ NoHoc

put(url, data, options) ==
    /\ Len(handles) < MaxReq
    /\ Apply(dcFetchMethod("put", 0, url, data, options))
    /\ Frame /\ NoHoc

patch(url, data, options) ==
    /\ Len(handles) < MaxReq
    /\ Apply(dcFetchMethod("patch", 0, url, data, options))
    /\ Frame /\ NoHoc

del(url, data, options) ==
    /\ Len(handles) < MaxReq
    /\ Apply(dcFetchMethod("del", 0, url, data, options))
    /\ Frame /\ NoHoc

singleGet(url, params, options) ==
    /\ Len(handles) < MaxReq
    /\ Apply(dcFetchMethod("singleGet", 0, url, params, options))
    /\ Frame /\ NoHoc

\* the caller calls cancel() on a handle that has not been cancelled yet
CallCancel(i) ==
    /\ i \in 1..Len(handles)
    /\ ~handles[i].reason
    /\ handles' = cancelIn(handles, i)
    /\ UNCHANGED singleGets
    /\ Frame /\ NoHoc /\ NoCall

\* the caller configures the client: dcFetch.defaults.timeout = 20000, or
\* dcFetch.mockDefaults.timeout = 20000
SetTimeout(name, v) ==
    /\ defaults' = [defaults EXCEPT ![exposed[name]].timeout = v]
    /\ UNCHANGED <<onShowSuccessTip, onShowErrorTip, isMock, handles, singleGets>>
    /\ NoHoc /\ NoCall

\* dcFetch.defaults.headers[m]['Content-Type'] = type, or on mockDefaults
\* the headers object written is the one of every instance when the library
\* shares it
SetContentType(name, m, type) ==
    /\ defaults' = [i \in Instances |->
                      IF i = exposed[name] \/ defaults[exposed[name]].sharedHeaders
                      THEN [defaults[i] EXCEPT !.headers[m] = type]
                      ELSE defaults[i]]
    /\ UNCHANGED <<onShowSuccessTip, onShowErrorTip, isMock, handles, singleGets>>
    /\ NoHoc /\ NoCall

----------------------------------------------------------------------------
(* the wrapped component *)

\* this._$dcFetch[method] = (...args) => { const dcFetchToken =
\*   dcFetch[method](...args); this._$dcFetchTokens.push(dcFetchToken);
\*   return dcFetchToken; }
\* The injected object outlives the component: it may be called after unmount.
pushMutSkip(tokens, token) == tokens
push(tokens, token) == Append(tokens, token)

Injected(c, op, url, data, options) ==
    /\ Len(handles) < MaxReq
    /\ Apply(dcFetchMethod(op, c, url, data, options))
    /\ dcFetchTokens' = IF dcFetchMethod(op, c, url, data, options).threw
                        THEN dcFetchTokens
                        ELSE [dcFetchTokens EXCEPT ![c] = push(@, Len(handles) + 1)]
    /\ UNCHANGED mounted
    /\ Frame

\* atUnmount records, for the properties, whether the request of a handle
\* issued through the component was still in flight when it was torn down.
AtUnmount(hs, c) ==
    [k \in DOMAIN hs |->
        IF hs[k].call.via = c
        THEN [hs[k] EXCEPT !.atUnmount =
                 IF hs[k].ax = "pending" THEN "inflight" ELSE "completed"]
        ELSE hs[k]]

\* this._$dcFetchTokens.forEach(item => item.cancel())
RECURSIVE forEachCancel(_, _)
forEachCancelMutFirst(hs, tokens) ==
    IF tokens = <<>> THEN hs
    ELSE cancelIn(hs, Head(tokens))
forEachCancel(hs, tokens) ==
    IF tokens = <<>> THEN hs
    ELSE forEachCancel(cancelIn(hs, Head(tokens)), Tail(tokens))

componentWillUnmount(c) ==
    /\ mounted[c]
    /\ mounted' = [mounted EXCEPT ![c] = FALSE]
    /\ handles' = forEachCancel(AtUnmount(handles, c), dcFetchTokens[c])
    /\ UNCHANGED <<singleGets, dcFetchTokens>>
    /\ Frame /\ NoCall

----------------------------------------------------------------------------
(* the HTTP client and the job queue *)

\* the request of handle i completes with a response
Respond(i, d) ==
    /\ i \in 1..Len(handles)
    /\ handles[i].ax = "pending"
    /\ handles' = [handles EXCEPT ![i].ax = "fulfilled", ![i].res = Response(d)]
    /\ UNCHANGED singleGets
    /\ Frame /\ NoHoc /\ NoCall

\* the request of handle i fails
Fail(i) ==
    /\ i \in 1..Len(handles)
    /\ handles[i].ax = "pending"
    /\ handles' = [handles EXCEPT ![i].ax = "rejected", ![i].res = NetworkError]
    /\ UNCHANGED singleGets
    /\ Frame /\ NoHoc /\ NoCall

Event(ev, arg, tip) == [ev |-> ev, arg |-> arg, tip |-> tip]

\* response => { this.onShowSuccessTip(response, successTip);
\*               resolve(response.data, response); }
onFulfilledMutOrder(h) ==
    [h EXCEPT !.cb = "done", !.state = "resolved", !.value = DataOf(h.res),
              !.trace = @ \o <<Event("resolve", DataOf(h.res), NoTip),
                               Event("onShowSuccessTip", h.res, h.successTip)>>]
onFulfilled(h) ==
    IF onShowSuccessTip = "throws"
    THEN [h EXCEPT !.cb = "threw", !.thrown = HookError,
                   !.trace = Append(@, Event("onShowSuccessTip", h.res, h.successTip))]
    ELSE [h EXCEPT !.cb = "done", !.state = "resolved", !.value = DataOf(h.res),
                   !.trace = @ \o <<Event("onShowSuccessTip", h.res, h.successTip),
                                    Event("resolve", DataOf(h.res), NoTip)>>]

\* err && err.message && err.message.canceled
isCanceled(err) == err.canceled

\* err => { if (isCanceled) return; this.onShowErrorTip(err, errorTip); reject(err); }
onRejectedMutNoCheck(h) ==
    [h EXCEPT !.cb = "done", !.state = "rejected", !.value = h.res,
              !.trace = @ \o <<Event("onShowErrorTip", h.res, h.errorTip),
                               Event("reject", h.res, NoTip)>>]
onRejected(h) ==
    IF isCanceled(h.res) THEN [h EXCEPT !.cb = "done"]
    ELSE IF onShowErrorTip = "throws"
    THEN [h EXCEPT !.cb = "threw", !.thrown = HookError,
                   !.trace = Append(@, Event("onShowErrorTip", h.res, h.errorTip))]
    ELSE [h EXCEPT !.cb = "done", !.state = "rejected", !.value = h.res,
                   !.trace = @ \o <<Event("onShowErrorTip", h.res, h.errorTip),
                                    Event("reject", h.res, NoTip)>>]

\* the job that runs the reaction .then(onFulfilled, onRejected) of handle i
RunThen(i) ==
    /\ i \in 1..Len(handles)
    /\ handles[i].ax # "pending"
    /\ handles[i].cb = "waiting"
    /\ handles' = [handles EXCEPT ![i] =
                     IF @.ax = "fulfilled" THEN onFulfilled(@) ELSE onRejected(@)]
    /\ UNCHANGED singleGets
    /\ Frame /\ NoHoc /\ NoCall

\* .catch(error => { reject(error); })
onCatchMutOriginal(h) ==
    [h EXCEPT !.cb = "done", !.state = "rejected", !.value = h.res,
              !.trace = Append(@, Event("reject", h.res, NoTip))]
onCatchMutErrorTip(h) ==
    [h EXCEPT !.cb = "done", !.state = "rejected", !.value = h.thrown,
              !.trace = @ \o <<Event("onShowErrorTip", h.thrown, h.errorTip),
                               Event("reject", h.thrown, NoTip)>>]
onCatchMutSwallow(h) == [h EXCEPT !.cb = "done"]
onCatch(h) ==
    [h EXCEPT !.cb = "done", !.state = "rejected", !.value = h.thrown,
              !.trace = Append(@, Event("reject", h.thrown, NoTip))]

RunCatch(i) ==
    /\ i \in 1..Len(handles)
    /\ handles[i].cb = "threw"
    /\ handles' = [handles EXCEPT ![i] = onCatch(@)]
    /\ UNCHANGED singleGets
    /\ Frame /\ NoHoc /\ NoCall

----------------------------------------------------------------------------
(* Spec: the dispatcher called directly.  A DcFetch constructed with any   *)
(* pair of hooks and the default isMock; every method, on either url, with *)
(* no options or with a cancel token of the caller's own.                  *)

HookKinds == {"returns", "throws"}
SpecData == {Obj(1)}
SpecOptions == {NoOptions, OwnTokenOptions}

Init ==
    \E succ \in HookKinds, err \in HookKinds, lib \in FormLibraries :
        Constructed(succ, err, "default", lib)

Next ==
    \/ \E u \in Urls, d \in SpecData, o \in SpecOptions : get(u, d, o)
    \/ \E u \in Urls, d \in SpecData, o \in SpecOptions : post(u, d, o)
    \/ \E u \in Urls, d \in SpecData, o \in SpecOptions : put(u, d, o)
    \/ \E u \in Urls, d \in SpecData, o \in SpecOptions : patch(u, d, o)
    \/ \E u \in Urls, d \in SpecData, o \in SpecOptions : del(u, d, o)
    \/ \E u \in Urls, d \in SpecData, o \in SpecOptions : singleGet(u, d, o)
    \/ \E i \in 1..MaxReq : CallCancel(i)
    \/ \E i \in 1..MaxReq : Respond(i, 1)
    \/ \E i \in 1..MaxReq : Fail(i)
    \/ \E i \in 1..MaxReq : RunThen(i)
    \/ \E i \in 1..MaxReq : RunCatch(i)

Spec == Init /\ [][Next]_vars

----------------------------------------------------------------------------
(* SpecTips: the hooks and the tips.  Any pair of hooks; every method on   *)
(* one url, with no options, null options, or options that give both tips. *)

TipOptions == [NoOptions EXCEPT !.successTip = "saved!", !.errorTip = "not-saved!"]
TipsOptions == {NoOptions, NullOptions, TipOptions}

NextTips ==
    \/ \E d \in SpecData, o \in TipsOptions : get("/users", d, o)
    \/ \E d \in SpecData, o \in TipsOptions : post("/users", d, o)
    \/ \E d \in SpecData, o \in TipsOptions : put("/users", d, o)
    \/ \E d \in SpecData, o \in TipsOptions : patch("/users", d, o)
    \/ \E d \in SpecData, o \in TipsOptions : del("/users", d, o)
    \/ \E d \in SpecData, o \in TipsOptions : singleGet("/users", d, o)
    \/ \E i \in 1..MaxReq : CallCancel(i)
    \/ \E i \in 1..MaxReq, d \in ResponseData : Respond(i, d)
    \/ \E i \in 1..MaxReq : Fail(i)
    \/ \E i \in 1..MaxReq : RunThen(i)
    \/ \E i \in 1..MaxReq : RunCatch(i)

SpecTips == Init /\ [][NextTips]_vars

\* SpecLive: the job queue runs.  Any pair of hooks; every method on one
\* url; a reaction that is ready is run in the end.
NextLive ==
    \/ \E d \in SpecData : get("/users", d, NoOptions)
    \/ \E d \in SpecData : post("/users", d, NoOptions)
    \/ \E d \in SpecData : put("/users", d, NoOptions)
    \/ \E d \in SpecData : patch("/users", d, NoOptions)
    \/ \E d \in SpecData : del("/users", d, NoOptions)
    \/ \E d \in SpecData, o \in SpecOptions : singleGet("/users", d, o)
    \/ \E i \in 1..MaxReq : CallCancel(i)
    \/ \E i \in 1..MaxReq : Respond(i, 1)
    \/ \E i \in 1..MaxReq : Fail(i)
    \/ \E i \in 1..MaxReq : RunThen(i)
    \/ \E i \in 1..MaxReq : RunCatch(i)

SpecLive ==
    /\ Init
    /\ [][NextLive]_vars
    /\ \A i \in 1..MaxReq : WF_vars(RunThen(i)) /\ WF_vars(RunCatch(i))

----------------------------------------------------------------------------
(* SpecHoc: a wrapped component.  A DcFetch with the default hooks; every  *)
(* injected method, and get called directly beside them.                   *)

InitHoc ==
    \E lib \in FormLibraries : Constructed("returns", "returns", "default", lib)

NextHoc ==
    \/ \E c \in Comps, op \in Ops, d \in SpecData, o \in SpecOptions :
          Injected(c, op, "/users", d, o)
    \/ \E c \in Comps : componentWillUnmount(c)
    \/ \E d \in SpecData, o \in SpecOptions : get("/users", d, o)
    \/ \E i \in 1..MaxReq : CallCancel(i)
    \/ \E i \in 1..MaxReq : Respond(i, 1)
    \/ \E i \in 1..MaxReq : Fail(i)
    \/ \E i \in 1..MaxReq : RunThen(i)

SpecHoc == InitHoc /\ [][NextHoc]_vars

----------------------------------------------------------------------------
(* SpecFetch: the request fetch builds.  A DcFetch with any isMock and     *)
(* either library Content-Type; one call, of any method, with any of the   *)
(* data and options below.                                                 *)

FormOptions == [NoOptions EXCEPT !.contentType = FormTypeCharset]
JsonOptions == [NoOptions EXCEPT !.contentType = JsonType]
DataOptions == [NoOptions EXCEPT !.data = Obj(3)]
ParamsOptions == [NoOptions EXCEPT !.params = Obj(3)]
MethodOptions == [NoOptions EXCEPT !.method = "post"]
UrlOptions == [NoOptions EXCEPT !.url = "/mock/users"]

FetchData == {Undefined, Null, EmptyObject, Obj(1), Obj(2), Obj(3)}
FetchOptions ==
    {NoOptions, NullOptions, UndefinedOptions, OwnTokenOptions, TipOptions,
     FormOptions, JsonOptions, DataOptions, ParamsOptions, MethodOptions,
     UrlOptions}

InitFetch ==
    \E mock \in MockPolicies, lib \in Libraries :
        Constructed("returns", "returns", mock, lib)

NextFetch ==
    /\ handles = <<>>
    /\ \/ \E u \in Urls, d \in FetchData, o \in FetchOptions : get(u, d, o)
       \/ \E u \in Urls, d \in FetchData, o \in FetchOptions : post(u, d, o)
       \/ \E u \in Urls, d \in FetchData, o \in FetchOptions : put(u, d, o)
       \/ \E u \in Urls, d \in FetchData, o \in FetchOptions : patch(u, d, o)
       \/ \E u \in Urls, d \in FetchData, o \in FetchOptions : del(u, d, o)
       \/ \E u \in Urls, d \in FetchData, o \in FetchOptions : singleGet(u, d, o)

SpecFetch == InitFetch /\ [][NextFetch]_vars

----------------------------------------------------------------------------
(* SpecDefaults: the two instances' defaults.  A DcFetch whose isMock      *)
(* picks the urls under /mock; the caller changes the timeout and the      *)
(* Content-Type of either instance at any time and makes one call, of any  *)
(* method, to either url.                                                  *)

Timeouts == {10000, 20000}
DefaultsData == {Obj(1), Null}
DefaultsOptions == {NoOptions, FormOptions, JsonOptions}

InitDefaults ==
    \E lib \in Libraries :
        Constructed("returns", "returns", "mockPrefix", lib)

NextDefaults ==
    \/ \E name \in Exposed, v \in Timeouts : SetTimeout(name, v)
    \/ \E name \in Exposed, m \in {"get", "post"}, type \in {FormType, JsonType} :
          SetContentType(name, m, type)
    \/ /\ handles = <<>>
       /\ \/ \E u \in Urls, d \in DefaultsData, o \in DefaultsOptions : get(u, d, o)
          \/ \E u \in Urls, d \in DefaultsData, o \in DefaultsOptions : post(u, d, o)
          \/ \E u \in Urls, d \in DefaultsData, o \in DefaultsOptions : put(u, d, o)
          \/ \E u \in Urls, d \in DefaultsData, o \in DefaultsOptions : patch(u, d, o)
          \/ \E u \in Urls, d \in DefaultsData, o \in DefaultsOptions : del(u, d, o)
          \/ \E u \in Urls, d \in DefaultsData, o \in DefaultsOptions : singleGet(u, d, o)

SpecDefaults == InitDefaults /\ [][NextDefaults]_vars

----------------------------------------------------------------------------
(* SpecSingle: the map of singleGet.  A DcFetch with the default hooks;    *)
(* singleGet with differing params and options (tips, a cancel token of    *)
(* the caller's own), and get, on every url,                               *)
(* among them one that is the name of a member of Object.prototype; the    *)
(* other methods beside them.                                              *)

AllUrls == Urls \cup InheritedKeys
SingleData == {Obj(1), Obj(3)}
SingleOptions == {NoOptions, TipOptions, OwnTokenOptions}

InitSingle ==
    \E lib \in FormLibraries : Constructed("returns", "returns", "default", lib)

NextSingle ==
    \/ \E u \in AllUrls, d \in SingleData, o \in SingleOptions : singleGet(u, d, o)
    \/ \E u \in AllUrls : get(u, Obj(1), NoOptions)
    \/ post("/users", Obj(1), NoOptions)
    \/ put("/users", Obj(1), NoOptions)
    \/ patch("/users", Obj(1), NoOptions)
    \/ del("/users", Obj(1), NoOptions)
    \/ \E i \in 1..MaxReq : CallCancel(i)
    \/ \E i \in 1..MaxReq : Respond(i, 1)
    \/ \E i \in 1..MaxReq : Fail(i)
    \/ \E i \in 1..MaxReq : RunThen(i)

SpecSingle == InitSingle /\ [][NextSingle]_vars

----------------------------------------------------------------------------
(* Properties *)

Handles == 1..Len(handles)

\* nothing has been triggered for h: no hook called, fetchPromise pending
Untriggered(h) == h.state = "pending" /\ h.trace = <<>>

\* handle i of hs was returned by singleGet, and singleGet has since been
\* called again for the same url
Superseded(hs, i) ==
    \E j \in (i + 1)..Len(hs) :
        /\ hs[i].call.op = "singleGet"
        /\ hs[j].call.op = "singleGet"
        /\ hs[j].call.url = hs[i].call.url

\* C1 as claimed: a handle of singleGet that has not settled when singleGet is
\* called again for its url never resolves or rejects afterwards, and no hook
\* is invoked for it afterwards.
C1_AsClaimed ==
    [][\A i \in Handles :
          (Superseded(handles', i) /\ handles[i].state = "pending")
             => /\ handles'[i].state = "pending"
                /\ handles'[i].trace = handles[i].trace]_vars

\* C1, amended: when singleGet is called again for a url while the request of
\* the earlier singleGet handle is still in flight, and that request carries
\* the cancel token fetch created, the earlier request is rejected with the
\* cancel; and a handle whose request was rejected with the cancel stays
\* pending for ever, with no hook invoked.
C1_InFlightInterrupted ==
    [][\A i \in Handles :
          /\ (/\ ~Superseded(handles, i)
              /\ Superseded(handles', i)
              /\ handles[i].ax = "pending"
              /\ ~handles[i].config.own)
                 => handles'[i].res = Cancel
          /\ handles[i].res = Cancel
                 => /\ handles'[i].res = Cancel
                    /\ Untriggered(handles'[i])]_vars

\* C1's case: an interrupted singleGet whose cancel rejection has been
\* handled, beside its successor, which has resolved
C1_Witness ==
    \E i \in Handles, j \in Handles :
        /\ i < j
        /\ Superseded(handles, i)
        /\ handles[i].res = Cancel
        /\ handles[i].cb = "done"
        /\ Untriggered(handles[i])
        /\ handles[j].call.op = "singleGet"
        /\ handles[j].state = "resolved"

\* C2 as claimed: of all the handles singleGet returned for one url, at most
\* one ever settles or has a hook invoked.
C2_AsClaimed ==
    \A u \in Urls :
        Cardinality({i \in Handles : /\ handles[i].call.op = "singleGet"
                                     /\ handles[i].call.url = u
                                     /\ ~Untriggered(handles[i])}) <= 1

\* C2, amended: of the handles singleGet returned for one url, leaving out
\* those whose request had already completed when singleGet was next called
\* for the url and those whose options replaced the cancel token fetch
\* creates, at most one ever settles or has a hook invoked.
C2_OnceAmongInterrupted ==
    \A u \in Urls :
        Cardinality({i \in Handles :
                        /\ handles[i].call.op = "singleGet"
                        /\ handles[i].call.url = u
                        /\ ~handles[i].config.own
                        /\ ~(/\ Superseded(handles, i)
                             /\ handles[i].cancelledAt = "completed")
                        /\ ~Untriggered(handles[i])}) <= 1

\* C2's case: singleGet called twice for a url with fetch's token, the first
\* request in flight at the second call and its cancel handled with nothing
\* triggered, the second failed with the error hook run and the handle
\* rejected
C2_Witness ==
    \E i \in Handles, j \in Handles :
        /\ i < j
        /\ Superseded(handles, i)
        /\ ~handles[i].config.own /\ ~handles[j].config.own
        /\ handles[i].cancelledAt = "inflight"
        /\ handles[i].cb = "done"
        /\ Untriggered(handles[i])
        /\ handles[j].call.url = handles[i].call.url
        /\ handles[j].call.op = "singleGet"
        /\ handles[j].state = "rejected"
        /\ handles[j].trace # <<>>

\* C3 as claimed: a handle whose cancel() was called while its request was in
\* flight never has a hook invoked and never settles.
C3_AsClaimed ==
    \A i \in Handles :
        handles[i].cancelledAt = "inflight" => Untriggered(handles[i])

\* C3, amended: the same, for a request that carries the cancel token fetch
\* created (options gave no cancelToken of its own): the request is rejected
\* with the cancel, no hook is ever invoked and the handle stays pending.
C3_CancelledStaysSilent ==
    \A i \in Handles :
        (handles[i].cancelledAt = "inflight" /\ ~handles[i].config.own)
            => /\ handles[i].res = Cancel
               /\ Untriggered(handles[i])

\* C3's case: a handle cancelled in flight whose rejection has been handled
C3_Witness ==
    \E i \in Handles :
        /\ handles[i].cancelledAt = "inflight"
        /\ ~handles[i].config.own
        /\ handles[i].cb = "done"
        /\ handles[i].call.op = "post"

\* C4 as claimed: a step in which cancel() is called on a handle aborts that
\* handle's request if it is in flight, and changes no other handle.
C4_AsClaimed ==
    [][\A i \in Handles :
          (~handles[i].reason /\ handles'[i].reason)
             => /\ handles[i].ax = "pending"
                   => (handles'[i].ax = "rejected" /\ handles'[i].res = Cancel)
                /\ \A j \in Handles \ {i} : handles'[j] = handles[j]]_vars

\* C4, amended: cancel() on a handle cancels the token fetch created for that
\* call; it aborts that handle's request if the request is in flight and
\* carries that token, leaves the request as it is if options replaced the
\* token, and changes no other handle.
C4_CancelIsLocal ==
    [][\A i \in Handles :
          (~handles[i].reason /\ handles'[i].reason)
             => /\ (handles[i].ax = "pending" /\ ~handles[i].config.own)
                   => (handles'[i].ax = "rejected" /\ handles'[i].res = Cancel)
                /\ handles[i].config.own
                   => (handles'[i].ax = handles[i].ax /\ handles'[i].res = handles[i].res)
                /\ \A j \in Handles \ {i} : handles'[j] = handles[j]]_vars

\* C4's case: one request cancelled in flight, another, never cancelled, has
\* gone on to resolve
C4_Witness ==
    \E i \in Handles, j \in Handles :
        /\ handles[i].res = Cancel
        /\ handles[i].call.op # "singleGet"
        /\ ~handles[j].reason
        /\ handles[j].state = "resolved"

\* the handles recorded in toks are exactly the handles of hs issued through
\* the injected object of each component, in the order of their issue
RecordedAll(hs, toks) ==
    \A c \in Comps :
        /\ \A k \in DOMAIN toks[c] :
              /\ toks[c][k] \in 1..Len(hs)
              /\ hs[toks[c][k]].call.via = c
        /\ \A i \in 1..Len(hs) :
              hs[i].call.via = c => \E k \in DOMAIN toks[c] : toks[c][k] = i
        /\ \A k \in DOMAIN toks[c], l \in DOMAIN toks[c] :
              k < l => toks[c][k] < toks[c][l]

\* C5: every call through an injected method appends the handle it returns to
\* the component's list; the step that unmounts the component leaves every
\* handle recorded till then with cancel() called on it; and a handle on which
\* cancel() has been called stays so.
C5_RecordedAndCancelled ==
    [][/\ RecordedAll(handles', dcFetchTokens')
       /\ \A c \in Comps :
             (mounted[c] /\ ~mounted'[c])
                => \A k \in DOMAIN dcFetchTokens[c] :
                      handles'[dcFetchTokens[c][k]].reason
       /\ \A i \in Handles : handles[i].reason => handles'[i].reason]_vars

\* C5's case: a component torn down after two calls through its injected
\* object, of different methods, both handles cancelled
C5_Witness ==
    \E c \in Comps :
        /\ ~mounted[c]
        /\ Len(dcFetchTokens[c]) = 2
        /\ handles[dcFetchTokens[c][1]].call.op # handles[dcFetchTokens[c][2]].call.op
        /\ \A k \in DOMAIN dcFetchTokens[c] :
              /\ handles[dcFetchTokens[c][k]].reason
              /\ handles[dcFetchTokens[c][k]].atUnmount # "never"

\* C6 as claimed: a request issued through the injected object and still in
\* flight when the component unmounts never has a hook invoked and its handle
\* never settles.
C6_AsClaimed ==
    \A i \in Handles :
        handles[i].atUnmount = "inflight" => Untriggered(handles[i])

\* C6, amended: the same, for a request that carries the cancel token fetch
\* created (options gave no cancelToken of its own): it is rejected with the
\* cancel, no hook is ever invoked and the handle stays pending.
C6_UnmountedStaysSilent ==
    \A i \in Handles :
        (handles[i].atUnmount = "inflight" /\ ~handles[i].config.own)
            => /\ handles[i].res = Cancel
               /\ Untriggered(handles[i])

\* C6's case: two requests in flight at unmount, their rejections handled
C6_Witness ==
    \E i \in Handles, j \in Handles :
        /\ i # j
        /\ \A k \in {i, j} :
              /\ handles[k].atUnmount = "inflight"
              /\ ~handles[k].config.own
              /\ handles[k].cb = "done"

\* C7: a request goes through the mock instance exactly when isMock returned a
\* truthy value for the call (url, method), and through the real instance
\* otherwise; with the default isMock it goes through the real instance.
C7_Routing ==
    \A i \in Handles :
        LET h == handles[i]
            truthy == CASE isMock = "default" -> FALSE
                        [] isMock = "mockPrefix" -> h.call.url = "/mock/users"
                        [] isMock = "postOnly" -> h.call.method = "post"
                        [] isMock = "one" -> TRUE
                        [] OTHER -> FALSE
        IN  /\ h.inst \in Instances
            /\ (h.inst = "mockInstance") = truthy
            /\ isMock = "default" => h.inst = "instance"

\* C7's case: a post routed to the mock instance by an isMock that picks posts
C7_Witness ==
    \E i \in Handles :
        /\ isMock = "postOnly"
        /\ handles[i].call.op = "post"
        /\ handles[i].inst = "mockInstance"

\* the caller's data as fetch carries it: null and undefined taken as {}, and
\* the value or its form encoding
Carried(h) ==
    LET d == IF Falsy(h.call.data) THEN EmptyObject ELSE h.call.data
    IN  {d, stringify(d)}

\* the options fetch works with: {} for null or undefined
Given(h) == IF h.call.options.t = "obj" THEN h.call.options ELSE NoOptions

\* C8 as claimed: for method get the request's params are the caller's data
\* and its body is {}; for every other method its body is the caller's data
\* and its params are {}.
C8_AsClaimed ==
    \A i \in Handles :
        LET h == handles[i]
        IN  IF h.call.method = "get"
            THEN h.config.params \in Carried(h) /\ h.config.data = EmptyObject
            ELSE h.config.data \in Carried(h) /\ h.config.params = EmptyObject

\* C8, amended: the same, for the body unless options carries a data of its
\* own and for the params unless options carries params of its own; those
\* replace what fetch placed.
C8_Placement ==
    \A i \in Handles :
        LET h == handles[i]
            isGet == h.call.method = "get"
        IN  /\ Given(h).params = Undefined
                => IF isGet THEN h.config.params \in Carried(h)
                   ELSE h.config.params = EmptyObject
            /\ Given(h).data = Undefined
                => IF isGet THEN h.config.data = EmptyObject
                   ELSE h.config.data \in Carried(h)
            /\ Given(h).params # Undefined => h.config.params = Given(h).params
            /\ Given(h).data # Undefined => h.config.data = Given(h).data

\* C8's case: singleGet with data {a: 1}: params {a: 1}, body {}
C8_Witness ==
    \E i \in Handles :
        /\ handles[i].call.op = "singleGet"
        /\ handles[i].call.data = Obj(1)
        /\ handles[i].config.params = Obj(1)
        /\ handles[i].config.data = EmptyObject

\* the tips fetch passes to the hooks, from the call's arguments
SuccessTipOf(h) ==
    IF Given(h).successTip # NoTip THEN Given(h).successTip ELSE FalseTip
ErrorTipOf(h) ==
    IF Given(h).errorTip # NoTip THEN Given(h).errorTip
    ELSE IF h.call.method = "get" THEN GetErrorTip ELSE OpErrorTip

HookEvents == {"onShowSuccessTip", "onShowErrorTip"}

\* C9 as claimed: once the reactions to a successful response have run, the
\* success hook has been called once with (response, successTip), then the
\* handle resolved with response.data, and the error hook was not called.
C9_AsClaimed ==
    \A i \in Handles :
        LET h == handles[i]
        IN  (h.ax = "fulfilled" /\ h.cb = "done")
               => /\ h.trace = <<Event("onShowSuccessTip", h.res, SuccessTipOf(h)),
                                 Event("resolve", DataOf(h.res), NoTip)>>
                  /\ h.state = "resolved"
                  /\ h.value = DataOf(h.res)

\* C9, amended: on a successful response the success hook is called once, with
\* (response, successTip), before anything else, and the error hook is not
\* called; if the hook returns the handle then resolves with response.data; if
\* it throws the handle does not resolve.  Nothing is triggered before the
\* reaction runs.
C9_SuccessThenResolve ==
    \A i \in Handles :
        LET h == handles[i]
        IN  h.ax = "fulfilled"
               => IF h.cb = "waiting" THEN Untriggered(h)
                  ELSE /\ Head(h.trace) = Event("onShowSuccessTip", h.res, SuccessTipOf(h))
                       /\ \A k \in 2..Len(h.trace) : h.trace[k].ev \notin HookEvents
                       /\ onShowSuccessTip = "returns"
                            => /\ h.cb = "done"
                               /\ h.trace[2] = Event("resolve", DataOf(h.res), NoTip)
                               /\ Len(h.trace) = 2
                               /\ h.state = "resolved"
                               /\ h.value = DataOf(h.res)
                       /\ onShowSuccessTip = "throws" => h.state # "resolved"

\* C9's case: two handles resolved, one with the successTip its options gave,
\* one with the default false
C9_Witness ==
    \E i \in Handles, j \in Handles :
        /\ handles[i].state = "resolved"
        /\ handles[j].state = "resolved"
        /\ handles[i].call.options = TipOptions
        /\ handles[i].trace[1].tip = "saved!"
        /\ handles[j].call.options = NullOptions
        /\ handles[j].trace[1].tip = FalseTip
        /\ handles[i].value.data # handles[j].value.data

\* C10 as claimed: once the reactions to a failure that is no cancel have run,
\* the error hook has been called once with (err, errorTip), then the handle
\* rejected with that err.
C10_AsClaimed ==
    \A i \in Handles :
        LET h == handles[i]
        IN  (h.ax = "rejected" /\ ~isCanceled(h.res) /\ h.cb = "done")
               => /\ h.trace = <<Event("onShowErrorTip", h.res, ErrorTipOf(h)),
                                 Event("reject", h.res, NoTip)>>
                  /\ h.state = "rejected"
                  /\ h.value = h.res

\* C10, amended: on a failure that is no cancel the error hook is called once,
\* with (err, errorTip), before anything else, and the success hook is not
\* called; if the hook returns the handle then rejects with that err; if it
\* throws the handle rejects with what the hook threw instead.
C10_ErrorThenReject ==
    \A i \in Handles :
        LET h == handles[i]
        IN  (h.ax = "rejected" /\ ~isCanceled(h.res))
               => IF h.cb = "waiting" THEN Untriggered(h)
                  ELSE /\ Head(h.trace) = Event("onShowErrorTip", h.res, ErrorTipOf(h))
                       /\ \A k \in 2..Len(h.trace) : h.trace[k].ev \notin HookEvents
                       /\ onShowErrorTip = "returns"
                            => /\ h.cb = "done"
                               /\ h.trace[2] = Event("reject", h.res, NoTip)
                               /\ Len(h.trace) = 2
                               /\ h.state = "rejected"
                               /\ h.value = h.res
                       /\ (onShowErrorTip = "throws" /\ h.cb = "done")
                            => (h.state = "rejected" /\ h.value = HookError)

\* C10's case: a get and a post both failed and rejected, each hook call with
\* the default tip of its method
C10_Witness ==
    \E i \in Handles, j \in Handles :
        /\ handles[i].call.op = "get"
        /\ handles[j].call.op = "post"
        /\ \A k \in {i, j} :
              /\ handles[k].call.options = NoOptions
              /\ handles[k].state = "rejected"
              /\ handles[k].value = NetworkError
        /\ handles[i].trace[1].tip = GetErrorTip
        /\ handles[j].trace[1].tip = OpErrorTip

\* C11: every one of method, url, data, params and cancelToken that options
\* carries is what the request is made with, in place of what fetch computed;
\* method and url that options does not carry are the ones fetch was called
\* with, and the cancel token is then the one fetch created.
C11_OptionsOverride ==
    \A i \in Handles :
        LET h == handles[i]
            o == Given(h)
        IN  /\ h.config.method = IF o.method # "undefined" THEN o.method
                                 ELSE h.call.method
            /\ h.config.url = IF o.url # "undefined" THEN o.url ELSE h.call.url
            /\ o.data # Undefined => h.config.data = o.data
            /\ o.params # Undefined => h.config.params = o.params
            /\ h.config.own = o.cancelToken

\* C11's case: del called with options {method: 'post'}: fetch computed
\* 'delete', the request is made with 'post'
C11_Witness ==
    \E i \in Handles :
        /\ handles[i].call.op = "del"
        /\ handles[i].call.method = "delete"
        /\ handles[i].call.options = MethodOptions
        /\ handles[i].config.method = "post"

\* the caller's data after `data || {}`
Norm(h) == IF Falsy(h.call.data) THEN EmptyObject ELSE h.call.data

\* where the request of h carries the caller's data
Sent(h) == IF h.call.method = "get" THEN h.config.params ELSE h.config.data

FormTypes == {FormType, FormTypeCharset}

\* C12: the request a call makes carries the caller's data form-encoded
\* exactly when, at the call, the Content-Type that the instance chosen for it
\* has as default for the method, or the Content-Type in options.headers,
\* contains the form type; otherwise it carries the data object itself.
C12_FormEncodedIff ==
    [][\A i \in 1..Len(handles') :
          i > Len(handles)
             => LET h == handles'[i]
                    form == \/ defaults[h.inst].headers[h.call.method] \in FormTypes
                            \/ Given(h).contentType \in FormTypes
                IN  Sent(h) = IF form THEN stringify(Norm(h)) ELSE Norm(h)]_vars

\* C12's case: a post routed to the mock instance after the mock instance's
\* Content-Type for post was set to the form type, the real instance's left
\* at json: the body is the query string
C12_Witness ==
    \E i \in Handles :
        /\ handles[i].call.op = "post"
        /\ handles[i].call.data = Obj(1)
        /\ handles[i].call.options = NoOptions
        /\ handles[i].inst = "mockInstance"
        /\ handles[i].defaultsUsed.headers["post"] = FormType
        /\ defaults["instance"].headers["post"] = JsonType
        /\ handles[i].config.data = Str(1)

\* C13: as constructed, the real and the mock instance both have timeout
\* 10000, baseURL '/', withCredentials true and Content-Type application/json
\* for post and for put, and dcFetch.defaults and dcFetch.mockDefaults are the
\* defaults of the real and of the mock instance.
C13_ConstructedDefaults ==
    /\ exposed["defaults"] = "instance"
    /\ exposed["mockDefaults"] = "mockInstance"
    /\ \A name \in Exposed :
          LET d == defaults[exposed[name]]
          IN  /\ d.timeout = 10000
              /\ d.baseURL = "/"
              /\ d.withCredentials = TRUE
              /\ d.headers["post"] = JsonType
              /\ d.headers["put"] = JsonType

\* C13's case: a DcFetch constructed on a client whose own Content-Type for
\* post, put and patch is the form type: post and put are json, patch is left
C13_Witness ==
    /\ handles = <<>>
    /\ \A inst \in Instances :
          /\ defaults[inst].headers["patch"] = FormType
          /\ defaults[inst].headers["put"] = JsonType
          /\ defaults[inst].timeout = 10000

\* C14 as claimed: a step that changes what dcFetch.defaults shows leaves
\* what dcFetch.mockDefaults shows unchanged, and the reverse; and the request
\* a call makes is made with the defaults, as they are at the call, of the
\* instance the call is routed to.
C14_AsClaimed ==
    [][/\ \A name \in Exposed, other \in Exposed :
             (name # other /\ defaults'[exposed[name]] # defaults[exposed[name]])
                => defaults'[exposed[other]] = defaults[exposed[other]]
       /\ \A i \in 1..Len(handles') :
             i > Len(handles)
                => /\ handles'[i].defaultsUsed = defaults[handles'[i].inst]
                   /\ handles'[i].inst =
                        IF handles'[i].call.url = "/mock/users"
                        THEN "mockInstance" ELSE "instance"
       /\ \A i \in Handles : handles'[i].defaultsUsed = handles[i].defaultsUsed]_vars

\* C14 for what the two instances do not share: a step that changes the
\* timeout, or on a library that copies the headers any default, seen through
\* one of dcFetch.defaults and dcFetch.mockDefaults leaves what the other
\* shows unchanged; on a library that shares the headers the two always show
\* the same Content-Types; and the request a call makes is made with the
\* defaults, as they are at the call, of the instance the call is routed to.
C14_SeparateTopLevel ==
    [][/\ \A name \in Exposed, other \in Exposed :
             LET d == defaults[exposed[name]]
                 o == defaults[exposed[other]]
             IN  /\ (name # other /\ defaults'[exposed[name]].timeout # d.timeout)
                       => defaults'[exposed[other]].timeout = o.timeout
                 /\ (name # other /\ ~d.sharedHeaders
                        /\ defaults'[exposed[name]] # d)
                       => defaults'[exposed[other]] = o
                 /\ d.sharedHeaders => defaults'[exposed[name]].headers
                                         = defaults'[exposed[other]].headers
       /\ \A i \in 1..Len(handles') :
             i > Len(handles)
                => /\ handles'[i].defaultsUsed = defaults[handles'[i].inst]
                   /\ handles'[i].inst =
                        IF handles'[i].call.url = "/mock/users"
                        THEN "mockInstance" ELSE "instance"
       /\ \A i \in Handles : handles'[i].defaultsUsed = handles[i].defaultsUsed]_vars

\* C14's failing case: on a library that shares the headers, the timeouts of
\* the two instances differ, the Content-Type for get was set to the form type
\* and both show it, and a get routed to the mock instance was form-encoded
C14_Witness ==
    \E i \in Handles :
        /\ defaults["instance"].sharedHeaders
        /\ defaults["instance"].timeout = 20000
        /\ defaults["mockInstance"].timeout = 10000
        /\ defaults["instance"].headers["get"] = FormType
        /\ defaults["mockInstance"].headers["get"] = FormType
        /\ handles[i].inst = "mockInstance"
        /\ handles[i].call.op = "get"
        /\ handles[i].call.options = NoOptions
        /\ handles[i].config.params = Str(1)

\* C15: the injected object has the six methods get, post, put, patch, del
\* and singleGet and no other; a call of one of them is a call of the method
\* of that name on dcFetch with the same arguments (the method it sends, the
\* url, and for singleGet the entry of singleGets), and the handle recorded
\* and returned is the one that call created.
C15_InjectedMethods ==
    [][/\ Ops = {"get", "post", "put", "patch", "del", "singleGet"}
       /\ \A c \in Comps :
             Len(dcFetchTokens'[c]) > Len(dcFetchTokens[c])
                => LET n == Len(handles')
                       h == handles'[n]
                   IN  /\ n = Len(handles) + 1
                       /\ dcFetchTokens'[c] = Append(dcFetchTokens[c], n)
                       /\ h.call.via = c
                       /\ h.call.op \in Ops
                       /\ h.call.url = "/users"
                       /\ h.call.data \in SpecData
                       /\ h.call.options \in SpecOptions
                       /\ h.call.method =
                            CASE h.call.op = "del" -> "delete"
                              [] h.call.op = "singleGet" -> "get"
                              [] OTHER -> h.call.op
                       /\ h.config.method = h.call.method
                       /\ h.config.url = h.call.url
                       /\ h.config.own = h.call.options.cancelToken
                       /\ IF h.call.op = "singleGet"
                          THEN singleGets' = [singleGets EXCEPT ![h.call.url] = n]
                          ELSE singleGets' = singleGets]_vars

\* C15's case: a component called the injected del and then the injected
\* singleGet: a delete request and a get request that singleGets holds
C15_Witness ==
    \E c \in Comps :
        /\ Len(dcFetchTokens[c]) = 2
        /\ handles[dcFetchTokens[c][1]].call.op = "del"
        /\ handles[dcFetchTokens[c][1]].config.method = "delete"
        /\ handles[dcFetchTokens[c][2]].call.op = "singleGet"
        /\ handles[dcFetchTokens[c][2]].config.method = "get"
        /\ singleGets["/users"] = dcFetchTokens[c][2]

\* the hook calls made for h
HooksRun(h) == SelectSeq(h.trace, LAMBDA e : e.ev \in HookEvents)

\* h is settled and exactly the hook that matches how its request ended has run
SettledMatching(h) ==
    /\ h.state \in {"resolved", "rejected"}
    /\ Len(HooksRun(h)) = 1
    /\ HooksRun(h)[1].ev = IF h.ax = "fulfilled" THEN "onShowSuccessTip"
                           ELSE "onShowErrorTip"

\* C16: a request whose call to the client has completed with a response, or
\* with an error that is no cancel, has its handle settled in the end,
\* resolved or rejected, with exactly the matching hook run.
C16_CompletedSettles ==
    \A i \in 1..MaxReq :
        (i \in Handles /\ handles[i].ax # "pending" /\ handles[i].res # Cancel)
           ~> (i \in Handles /\ SettledMatching(handles[i]))

\* C16's case: one request answered and one failed, neither ever cancelled,
\* both handles settled
C16_Witness ==
    \E i \in Handles, j \in Handles :
        /\ ~handles[i].reason /\ ~handles[j].reason
        /\ handles[i].ax = "fulfilled" /\ SettledMatching(handles[i])
        /\ handles[j].ax = "rejected" /\ SettledMatching(handles[j])

\* the handle the most recent call singleGet(u) returned (0: none)
Latest(hs, u) ==
    LET S == {i \in 1..Len(hs) : hs[i].call.op = "singleGet" /\ hs[i].call.url = u}
    IN  IF S = {} THEN 0 ELSE CHOOSE i \in S : \A j \in S : j <= i

\* C17 as claimed: every call of singleGet returns a handle, singleGets[url]
\* is the handle the most recent call of singleGet for url returned, and there
\* is no entry for a url singleGet was never called with.
C17_AsClaimed ==
    /\ ~threw
    /\ \A u \in Urls : singleGets[u] = Latest(handles, u)

\* C17 for the urls that are no name of a member of Object.prototype:
\* singleGets[url] is the handle of the most recent singleGet for url, settled
\* or not, and 0 if there was none; a step that is no call of singleGet leaves
\* the map unchanged, and no entry is ever removed.
C17_MapOfPlainUrls ==
    [][/\ \A u \in Urls : singleGets'[u] = Latest(handles', u)
       /\ (\A u \in Urls : Latest(handles', u) = Latest(handles, u))
             => singleGets' = singleGets
       /\ \A u \in Urls : singleGets[u] # 0 => singleGets'[u] # 0]_vars

\* C17's failing case: singleGet('constructor') on a fresh DcFetch has thrown;
\* no request was made and the map holds nothing for it
C17_Witness ==
    /\ threw
    /\ handles = <<>>
    /\ \A u \in Urls : singleGets[u] = 0

\* C18 as claimed: a call of singleGet for a url cancels the singleGet for
\* that url that is pending, whatever the params and options of the two
\* calls: its request, if still in flight, is aborted; it leaves every other
\* handle as it is: those of singleGet for another url and those of get for
\* the same url.  A call of any other method leaves every handle as it is.
C18_AsClaimed ==
    [][Len(handles') > Len(handles)
          => LET n == Len(handles')
                 h == handles'[n]
                 old == IF h.call.op = "singleGet" THEN singleGets[h.call.url] ELSE 0
             IN  /\ \A i \in Handles : i # old => handles'[i] = handles[i]
                 /\ old # 0
                      => /\ handles'[old].reason
                         /\ handles[old].call.op = "singleGet"
                         /\ handles[old].call.url = h.call.url
                         /\ handles[old].ax = "pending"
                               => handles'[old].res = Cancel
                 /\ (h.call.op = "singleGet" /\ Latest(handles, h.call.url) # 0)
                      => old = Latest(handles, h.call.url)]_vars

\* C18, amended: a call of singleGet for a url calls cancel() on the handle
\* the previous singleGet for that url returned, whatever the params and
\* options of the two calls; that aborts its request if it is still in flight
\* with the cancel token fetch created, and leaves the request in flight if
\* the earlier call's options replaced that token.  The call leaves every
\* other handle as it is: those of singleGet for another url and those of get
\* for the same url.  A call of any other method leaves every handle as it is.
C18_DedupeByUrlAlone ==
    [][Len(handles') > Len(handles)
          => LET n == Len(handles')
                 h == handles'[n]
                 old == IF h.call.op = "singleGet" THEN singleGets[h.call.url] ELSE 0
             IN  /\ \A i \in Handles : i # old => handles'[i] = handles[i]
                 /\ old # 0
                      => /\ handles'[old].reason
                         /\ handles[old].call.op = "singleGet"
                         /\ handles[old].call.url = h.call.url
                         /\ (handles[old].ax = "pending" /\ ~handles[old].config.own)
                               => handles'[old].res = Cancel
                         /\ (handles[old].ax = "pending" /\ handles[old].config.own)
                               => /\ handles'[old].ax = "pending"
                                  /\ handles'[old].res = handles[old].res
                 /\ (h.call.op = "singleGet" /\ Latest(handles, h.call.url) # 0)
                      => old = Latest(handles, h.call.url)]_vars

\* C18's case: singleGet('/users', {a: 1}) in flight, then
\* singleGet('/users', {b: 2}, {successTip, errorTip}): the first is aborted
C18_Witness ==
    /\ Len(handles) = 2
    /\ handles[1].call.op = "singleGet" /\ handles[2].call.op = "singleGet"
    /\ handles[1].call.url = handles[2].call.url
    /\ handles[1].call.data = Obj(1) /\ handles[2].call.data = Obj(3)
    /\ handles[1].call.options = NoOptions /\ handles[2].call.options = TipOptions
    /\ handles[1].cancelledAt = "inflight"
    /\ handles[1].res = Cancel
    /\ handles[2].ax = "pending"

\* C19: a call with null or undefined data and null or undefined options
\* makes the request, through the instance, with the configuration and with
\* the tips that the same call with {} and {} makes.
C19_NullAsEmpty ==
    \A i \in Handles :
        LET h == handles[i]
            e == fetch(h.call.url, EmptyObject, h.call.method, NoOptions)
        IN  (h.call.data \in {Null, Undefined, EmptyObject}
                /\ h.call.options \in {NullOptions, UndefinedOptions, NoOptions})
               => /\ h.config = e.config
                  /\ h.inst = e.inst
                  /\ h.successTip = e.successTip
                  /\ h.errorTip = e.errorTip
                  /\ h.successTip = FalseTip
                  /\ h.errorTip = IF h.call.method = "get" THEN GetErrorTip
                                  ELSE OpErrorTip
                  /\ {h.config.data, h.config.params} \subseteq {EmptyObject, Str(0)}

\* C19's case: put(url, null, null): the body is {}, the tips the defaults
C19_Witness ==
    \E i \in Handles :
        /\ handles[i].call.op = "put"
        /\ handles[i].call.data = Null
        /\ handles[i].call.options = NullOptions
        /\ handles[i].config.data = EmptyObject
        /\ handles[i].config.params = EmptyObject
        /\ handles[i].errorTip = OpErrorTip

\* how often ev occurs among the hook calls and settlements of h
Count(h, ev) == Len(SelectSeq(h.trace, LAMBDA e : e.ev = ev))

\* C20: for every request resolve and reject are called at most once
\* together, the handle is resolved or rejected accordingly and then stays as
\* it is, and the success hook and the error hook are called at most once
\* together; what has happened for a request is never undone.
C20_AtMostOnce ==
    [][/\ \A i \in 1..Len(handles') :
             LET h == handles'[i]
             IN  /\ Count(h, "resolve") + Count(h, "reject") <= 1
                 /\ Count(h, "onShowSuccessTip") + Count(h, "onShowErrorTip") <= 1
                 /\ (h.state = "resolved") = (Count(h, "resolve") = 1)
                 /\ (h.state = "rejected") = (Count(h, "reject") = 1)
                 /\ Len(h.trace) = Count(h, "resolve") + Count(h, "reject")
                       + Count(h, "onShowSuccessTip") + Count(h, "onShowErrorTip")
       /\ \A i \in Handles :
             /\ Len(handles'[i].trace) >= Len(handles[i].trace)
             /\ SubSeq(handles'[i].trace, 1, Len(handles[i].trace)) = handles[i].trace
             /\ handles[i].state # "pending"
                   => /\ handles'[i].state = handles[i].state
                      /\ handles'[i].value = handles[i].value]_vars

\* C20's case: a response whose success hook threw, the handle rejected with
\* what it threw and the error hook not called; and a request that failed,
\* was cancelled after that, and rejected with its error
C20_Witness ==
    \E i \in Handles, j \in Handles :
        /\ handles[i].ax = "fulfilled"
        /\ handles[i].state = "rejected"
        /\ handles[i].value = HookError
        /\ Count(handles[i], "onShowSuccessTip") = 1
        /\ Count(handles[i], "onShowErrorTip") = 0
        /\ handles[j].res = NetworkError
        /\ handles[j].cancelledAt = "completed"
        /\ handles[j].state = "rejected"
        /\ handles[j].value = NetworkError

\* the hook that is called for how the request of h ended has thrown
HookThrew(h) ==
    /\ h.cb # "waiting"
    /\ \/ h.ax = "fulfilled" /\ onShowSuccessTip = "throws"
       \/ h.ax = "rejected" /\ ~isCanceled(h.res) /\ onShowErrorTip = "throws"

\* C21: when the success hook throws on a response the handle is never
\* resolved and the error hook is never called for it; when the error hook
\* throws on a failure the success hook is never called for it; in both cases
\* the handle is rejected in the end, with what the hook threw, and a handle
\* that is rejected once the hook threw is rejected with that.
C21_ThrowingHookRejects ==
    /\ [](\A i \in Handles :
             HookThrew(handles[i])
                => /\ handles[i].state # "resolved"
                   /\ Count(handles[i], "resolve") = 0
                   /\ Count(handles[i], IF handles[i].ax = "fulfilled"
                                        THEN "onShowErrorTip"
                                        ELSE "onShowSuccessTip") = 0
                   /\ handles[i].state = "rejected" => handles[i].value = HookError)
    /\ \A i \in 1..MaxReq :
          (i \in Handles /\ HookThrew(handles[i]))
             ~> (i \in Handles /\ handles[i].state = "rejected"
                               /\ handles[i].value = HookError)

\* C21's case: both hooks throw; a response and a failure have each ended in a
\* handle rejected with what the hook threw
C21_Witness ==
    \E i \in Handles, j \in Handles :
        /\ handles[i].ax = "fulfilled" /\ handles[j].ax = "rejected"
        /\ \A k \in {i, j} :
              /\ HookThrew(handles[k])
              /\ handles[k].state = "rejected"
              /\ handles[k].value = HookError
              /\ Len(handles[k].trace) = 2
        /\ handles[i].trace[1].ev = "onShowSuccessTip"
        /\ handles[j].trace[1].ev = "onShowErrorTip"

====
